---- MODULE Spec2Model ----
(***************************************************************************)
(* Model of the in-memory storage layer (server/storage.ts, MemStorage)    *)
(* and of the REST route handlers that drive it (server/routes.ts).        *)
(* A Map<number, T> is a sequence of [key, value] entries in insertion     *)
(* order; a record is a function from field names to values; a request    *)
(* handler is one atomic action (the sequential execution model).          *)
(***************************************************************************)
EXTENDS Integers, Sequences, FiniteSets, TLC

VARIABLES users, blogs, likes, followers, comments,
          userId, blogId, likeId, followerId, commentId,
          req, res, created, removed, inflight, client

stores   == <<users, blogs, likes, followers, comments>>
counters == <<userId, blogId, likeId, followerId, commentId>>
vars     == <<users, blogs, likes, followers, comments,
              userId, blogId, likeId, followerId, commentId,
              req, res, created, removed, inflight, client>>

(***************************************************************************)
(* Bounds of the model.                                                    *)
(***************************************************************************)
\* largest id one entity type hands out
MaxId == 2
\* number of records created over all entity types in one behaviour
MaxCreates == 2
\* number of request handlers that are suspended at an await at one time
MaxInflight == 2

\* ids a request may name: every id that can be assigned
ReqIds == 1..MaxId

\* the values the fields of the request bodies are drawn from
Usernames == {"alice", "bob"}
Names     == {"A"}
\* an identity-provider account: its uid and its email address
Accounts  == {[uid |-> "g1", email |-> "a@x"], [uid |-> "g2", email |-> "b@x"]}
RefIds    == {1, 2}
\* an author writes in one category
Authors   == {[userId |-> 1, category |-> "Tech"], [userId |-> 2, category |-> "tech"]}
Titles    == {"t"}
Contents  == {"c1"}
Times     == {1, 2}

Types == {"user", "blog", "like", "follower", "comment"}

(***************************************************************************)
(* Values.                                                                 *)
(***************************************************************************)
\* JavaScript undefined, as returned by Map.get and Array.find
Absent == [undefined |-> TRUE]

NoBody == [f \in {} |-> 0]

\* { ...rec, id }
WithId(rec, id) ==
  [f \in (DOMAIN rec) \cup {"id"} |-> IF f = "id" THEN id ELSE rec[f]]

\* { ...old, ...partial }
Spread(old, partial) ==
  [f \in (DOMAIN old) \cup (DOMAIN partial) |->
     IF f \in DOMAIN partial THEN partial[f] ELSE old[f]]

(***************************************************************************)
(* Map<number, T>: entries in insertion order.                             *)
(***************************************************************************)
MapKeys(m) == {m[i].key : i \in 1..Len(m)}

MapHas(m, k) == \E i \in 1..Len(m) : m[i].key = k

MapGet(m, k) ==
  IF MapHas(m, k)
  THEN m[CHOOSE i \in 1..Len(m) : m[i].key = k].value
  ELSE Absent

\* Map.set: an existing key keeps its position, a new key is appended
MapSet(m, k, v) ==
  IF MapHas(m, k)
  THEN [i \in 1..Len(m) |-> IF m[i].key = k THEN [key |-> k, value |-> v] ELSE m[i]]
  ELSE Append(m, [key |-> k, value |-> v])

\* Map.delete: the map without the entry of key k
MapDelete(m, k) == SelectSeq(m, LAMBDA e : e.key # k)

\* Array.from(m.values())
MapValues(m) == [i \in 1..Len(m) |-> m[i].value]

\* Array.find over the elements that satisfy the predicate, given in array
\* order: the first of them, or undefined when there is none
Find(matching) == IF matching = <<>> THEN Absent ELSE Head(matching)

\* Array.sort with the comparator (a, b) => b[f] - a[f]: descending in f,
\* and stable, so elements that compare equal keep their array order
InsertDesc(sorted, x, f) ==
  LET before == {i \in 1..Len(sorted) : sorted[i][f] >= x[f]}
      k      == IF before = {} THEN 0
                ELSE CHOOSE i \in before : \A j \in before : j <= i
  IN  SubSeq(sorted, 1, k) \o <<x>> \o SubSeq(sorted, k + 1, Len(sorted))

RECURSIVE SortDesc(_, _)
SortDesc(s, f) ==
  IF s = <<>> THEN <<>>
  ELSE InsertDesc(SortDesc(SubSeq(s, 1, Len(s) - 1), f), s[Len(s)], f)

\* Array.slice(start, end): a negative index counts from the end of the
\* array, and both indices are clamped to the array
SliceIndex(s, i) ==
  IF i < 0
  THEN (IF Len(s) + i < 0 THEN 0 ELSE Len(s) + i)
  ELSE (IF i > Len(s) THEN Len(s) ELSE i)

Slice(s, start, end) == SubSeq(s, SliceIndex(s, start) + 1, SliceIndex(s, end))

(***************************************************************************)
(* Request bodies and schema validation (shared/schema.ts).                *)
(***************************************************************************)
insertUserSchema     == {"uid", "username", "email", "displayName"}
insertBlogSchema     == {"userId", "title", "category", "publishedAt"}
insertLikeSchema     == {"userId", "blogId"}
insertFollowerSchema == {"followerId", "followingId"}
insertCommentSchema  == {"userId", "blogId", "content", "createdAt"}

\* schema.parse(body): a ZodError when a required field is missing,
\* otherwise the body with the keys the schema does not know stripped
ParseOk(schema, body) == schema \subseteq DOMAIN body

\* the nullable columns of a table: optional keys of its insert schema
OptionalOf(schema) ==
  IF schema = insertUserSchema THEN {"bio", "photoURL", "location", "website"}
  ELSE IF schema = insertBlogSchema THEN {"coverImage", "tags"}
  ELSE IF schema = insertCommentSchema THEN {"parentId"}
  ELSE {}

Parse(schema, body) ==
  [f \in schema \cup (OptionalOf(schema) \cap DOMAIN body) |-> body[f]]

\* bodies of the POST routes: the schema-valid bodies, a body that lacks a
\* required field, and (for users) a body with a key the schema does not know
UserBodies ==
  {[uid |-> a.uid, username |-> n, email |-> a.email, displayName |-> d] :
     a \in Accounts, n \in Usernames, d \in Names}
    \cup {[uid |-> "g1", username |-> "alice", displayName |-> "A"],
          [uid |-> "g2", username |-> "bob", email |-> "b@x",
           displayName |-> "A", id |-> 1]}

BlogBodies ==
  {[userId |-> a.userId, title |-> h, category |-> a.category, publishedAt |-> t] :
     a \in Authors, h \in Titles, t \in Times}
    \cup {[userId |-> 1, title |-> "t", category |-> "Tech"]}

LikeBodies ==
  [userId : RefIds, blogId : RefIds] \cup {[userId |-> 1]}

FollowerBodies ==
  [followerId : RefIds, followingId : RefIds] \cup {[followerId |-> 1]}

CommentBodies ==
  [userId : {1}, blogId : RefIds, content : Contents, createdAt : Times]
    \cup {[userId |-> 1, blogId |-> 1, createdAt |-> 1]}

\* comments that reply to a comment
ReplyBodies ==
  {[userId |-> 1, blogId |-> 2, content |-> "c1", createdAt |-> 1, parentId |-> p] :
     p \in RefIds}

\* bodies of the PUT routes: a subset of the fields, unvalidated
UserPartials ==
  {NoBody} \cup [username : Usernames]
    \cup {[uid |-> a.uid, email |-> a.email] : a \in Accounts}

BlogPartials ==
  {NoBody} \cup [publishedAt : Times]
    \cup {[userId |-> a.userId, category |-> a.category] : a \in Authors}

CommentPartials ==
  {NoBody} \cup [createdAt : Times] \cup [content : Contents, blogId : {2}]

\* category names a request may ask for
CategoryParams == {"Tech", "tech", "TECH"}

\* query strings of GET /api/blogs, as the numbers parseInt reads from them
BlogQueries ==
  {NoBody} \cup [limit : {1}, offset : 0..MaxId]
    \cup [limit : {0, -1}] \cup [offset : {-1}]

(***************************************************************************)
(* MemStorage: user operations.                                            *)
(***************************************************************************)
getUser(id) == MapGet(users, id)

getUserByUid(uid) ==
  Find(SelectSeq(MapValues(users), LAMBDA user : user.uid = uid))

\* getUserByUsername that compares the wrong field
getUserByUsernameUid(username) ==
  Find(SelectSeq(MapValues(users), LAMBDA user : user.uid = username))

getUserByUsername(username) ==
  Find(SelectSeq(MapValues(users), LAMBDA user : user.username = username))

\* createUser that stores the input without the assigned id
createUserNoId(user) ==
  LET id      == userId
      newUser == WithId(user, id)
  IN  [ret |-> newUser, map |-> MapSet(users, id, user), counter |-> userId + 1]

createUser(user) ==
  LET id      == userId
      newUser == WithId(user, id)
  IN  [ret |-> newUser, map |-> MapSet(users, id, newUser), counter |-> userId + 1]

updateUser(id, userData) ==
  LET user == MapGet(users, id) IN
  IF user = Absent
  THEN [threw |-> "User not found", ret |-> Absent, map |-> users]
  ELSE LET updatedUser == Spread(user, userData)
       IN  [threw |-> "none", ret |-> updatedUser,
            map |-> MapSet(users, id, updatedUser)]

(***************************************************************************)
(* MemStorage: blog operations.                                            *)
(***************************************************************************)
getBlog(id) == MapGet(blogs, id)

\* getBlogs that slices up to the limit instead of up to offset + limit
getBlogsEndAtLimit(limit, offset) ==
  Slice(SortDesc(MapValues(blogs), "publishedAt"), offset, limit)

getBlogs(limit, offset) ==
  Slice(SortDesc(MapValues(blogs), "publishedAt"), offset, offset + limit)

getBlogsByUser(uId) ==
  SortDesc(SelectSeq(MapValues(blogs), LAMBDA blog : blog.userId = uId),
           "publishedAt")

\* getBlogsByCategory that compares the category names without regard to case
LowerCase(c) == IF c \in {"Tech", "TECH"} THEN "tech" ELSE c

getBlogsByCategoryAnyCase(category) ==
  SortDesc(SelectSeq(MapValues(blogs),
                     LAMBDA blog : LowerCase(blog.category) = LowerCase(category)),
           "publishedAt")

getBlogsByCategory(category) ==
  SortDesc(SelectSeq(MapValues(blogs), LAMBDA blog : blog.category = category),
           "publishedAt")

createBlog(blog) ==
  LET id      == blogId
      newBlog == WithId(blog, id)
  IN  [ret |-> newBlog, map |-> MapSet(blogs, id, newBlog), counter |-> blogId + 1]

\* updateBlog that inserts the partial input when the id is absent
updateBlogUpsert(id, blogData) ==
  LET blog        == MapGet(blogs, id)
      updatedBlog == IF blog = Absent THEN blogData ELSE Spread(blog, blogData)
  IN  [threw |-> "none", ret |-> updatedBlog, map |-> MapSet(blogs, id, updatedBlog)]

updateBlog(id, blogData) ==
  LET blog == MapGet(blogs, id) IN
  IF blog = Absent
  THEN [threw |-> "Blog not found", ret |-> Absent, map |-> blogs]
  ELSE LET updatedBlog == Spread(blog, blogData)
       IN  [threw |-> "none", ret |-> updatedBlog,
            map |-> MapSet(blogs, id, updatedBlog)]

deleteBlog(id) == [ret |-> MapHas(blogs, id), map |-> MapDelete(blogs, id)]

(***************************************************************************)
(* MemStorage: like operations.                                            *)
(***************************************************************************)

\* getLike with its two arguments compared against the wrong fields
getLikeSwapped(uId, bId) ==
  Find(SelectSeq(MapValues(likes),
                 LAMBDA like : like.userId = bId /\ like.blogId = uId))

getLike(uId, bId) ==
  Find(SelectSeq(MapValues(likes),
                 LAMBDA like : like.userId = uId /\ like.blogId = bId))

\* getLikesByBlog that lists nothing for a blog that is not stored
getLikesByBlogLive(bId) ==
  IF MapHas(blogs, bId)
  THEN SelectSeq(MapValues(likes), LAMBDA like : like.blogId = bId)
  ELSE <<>>

getLikesByBlog(bId) ==
  SelectSeq(MapValues(likes), LAMBDA like : like.blogId = bId)

getLikesByUser(uId) ==
  SelectSeq(MapValues(likes), LAMBDA like : like.userId = uId)

\* createLike that derives the id from the size of the map
createLikeReuse(like) ==
  LET id      == Len(likes) + 1
      newLike == WithId(like, id)
  IN  [ret |-> newLike, map |-> MapSet(likes, id, newLike), counter |-> likeId + 1]

createLike(like) ==
  LET id      == likeId
      newLike == WithId(like, id)
  IN  [ret |-> newLike, map |-> MapSet(likes, id, newLike), counter |-> likeId + 1]

\* deleteLike that reports the delete and keeps the record
deleteLikeKeeps(id) == [ret |-> MapHas(likes, id), map |-> likes]

deleteLike(id) == [ret |-> MapHas(likes, id), map |-> MapDelete(likes, id)]

(***************************************************************************)
(* MemStorage: follower operations.                                        *)
(***************************************************************************)

\* getFollower that matches on the follower alone and on no one's followee
getFollowerSelf(fId, gId) ==
  Find(SelectSeq(MapValues(followers),
                 LAMBDA follower : /\ follower.followerId = fId
                                   /\ follower.followingId = fId))

getFollower(fId, gId) ==
  Find(SelectSeq(MapValues(followers),
                 LAMBDA follower : /\ follower.followerId = fId
                                   /\ follower.followingId = gId))

\* getFollowers that filters on the follower instead of the followee
getFollowersOfFollower(uId) ==
  SelectSeq(MapValues(followers), LAMBDA follower : follower.followerId = uId)

getFollowers(uId) ==
  SelectSeq(MapValues(followers), LAMBDA follower : follower.followingId = uId)

getFollowing(uId) ==
  SelectSeq(MapValues(followers), LAMBDA follower : follower.followerId = uId)

\* createFollower that numbers the records of all types in one sequence
createFollowerShared(follower) ==
  LET id          == userId + blogId + likeId + followerId + commentId - 4
      newFollower == WithId(follower, id)
  IN  [ret |-> newFollower, map |-> MapSet(followers, id, newFollower),
       counter |-> followerId + 1]

createFollower(follower) ==
  LET id          == followerId
      newFollower == WithId(follower, id)
  IN  [ret |-> newFollower, map |-> MapSet(followers, id, newFollower),
       counter |-> followerId + 1]

\* deleteFollower that reports success whether or not the key was there
deleteFollowerAlways(id) ==
  [ret |-> TRUE, map |-> MapDelete(followers, id)]

deleteFollower(id) ==
  [ret |-> MapHas(followers, id), map |-> MapDelete(followers, id)]

(***************************************************************************)
(* MemStorage: comment operations.                                         *)
(***************************************************************************)
getComment(id) == MapGet(comments, id)

getCommentsByBlog(bId) ==
  SortDesc(SelectSeq(MapValues(comments), LAMBDA comment : comment.blogId = bId),
           "createdAt")

\* getCommentsByUser that returns the comments in the order of the map
getCommentsByUserUnsorted(uId) ==
  SelectSeq(MapValues(comments), LAMBDA comment : comment.userId = uId)

getCommentsByUser(uId) ==
  SortDesc(SelectSeq(MapValues(comments), LAMBDA comment : comment.userId = uId),
           "createdAt")

\* createComment that does not advance the id counter
createCommentNoAdvance(comment) ==
  LET id         == commentId
      newComment == WithId(comment, id)
  IN  [ret |-> newComment, map |-> MapSet(comments, id, newComment),
       counter |-> commentId]

createComment(comment) ==
  LET id         == commentId
      newComment == WithId(comment, id)
  IN  [ret |-> newComment, map |-> MapSet(comments, id, newComment),
       counter |-> commentId + 1]

\* updateComment that replaces the record instead of merging into it
updateCommentReplace(id, commentData) ==
  LET comment == MapGet(comments, id) IN
  IF comment = Absent
  THEN [threw |-> "Comment not found", ret |-> Absent, map |-> comments]
  ELSE LET updatedComment == WithId(commentData, id)
       IN  [threw |-> "none", ret |-> updatedComment,
            map |-> MapSet(comments, id, updatedComment)]

updateComment(id, commentData) ==
  LET comment == MapGet(comments, id) IN
  IF comment = Absent
  THEN [threw |-> "Comment not found", ret |-> Absent, map |-> comments]
  ELSE LET updatedComment == Spread(comment, commentData)
       IN  [threw |-> "none", ret |-> updatedComment,
            map |-> MapSet(comments, id, updatedComment)]

deleteComment(id) ==
  [ret |-> MapHas(comments, id), map |-> MapDelete(comments, id)]

(***************************************************************************)
(* Route handlers (server/routes.ts).  Each handler runs to completion.    *)
(***************************************************************************)
\* JavaScript null
Null == [null |-> TRUE]

\* the AuthProvider of the client and the identity provider and document
\* store it talks to, once the first auth-state callback has cleared the
\* loading flag: the await register() is suspended at (pc), the loading
\* flag, how the promise of the last register() call settled (result), the
\* arguments and the uid of that call, the uids that have an account, and
\* the uids that have a document
ClientInit ==
  [pc |-> "idle", loading |-> FALSE, result |-> "none",
   email |-> "", username |-> "", uid |-> "",
   accounts |-> {}, docs |-> {}]

Init ==
  /\ users = <<>> /\ blogs = <<>> /\ likes = <<>>
  /\ followers = <<>> /\ comments = <<>>
  /\ userId = 1 /\ blogId = 1 /\ likeId = 1 /\ followerId = 1 /\ commentId = 1
  /\ req = [route |-> "none", id |-> 0, body |-> NoBody]
  /\ res = [status |-> 0, body |-> NoBody, logged |-> "none"]
  /\ created = [t \in Types |-> <<>>]
  /\ removed = [t \in Types |-> <<>>]
  /\ inflight = <<>>
  /\ client = ClientInit

TotalCreated ==
  (userId - 1) + (blogId - 1) + (likeId - 1) + (followerId - 1) + (commentId - 1)

\* the model stops creating at its bounds
MayCreate(counter) == counter <= MaxId /\ TotalCreated < MaxCreates

Request(route, id, body) == req' = [route |-> route, id |-> id, body |-> body]

\* res.status(status).json(body)
Respond(status, body) ==
  res' = [status |-> status, body |-> body, logged |-> "none"]

\* handleError that answers a not-found error with 404
handleErrorNotFound(err) ==
  IF err = "ZodError"
  THEN res' = [status |-> 400, body |-> [message |-> "Validation error"],
               logged |-> err]
  ELSE IF err \in {"User not found", "Blog not found", "Comment not found"}
  THEN res' = [status |-> 404, body |-> [message |-> err], logged |-> err]
  ELSE res' = [status |-> 500, body |-> [message |-> "Internal server error"],
               logged |-> err]

\* handleError: log the error, 400 for a ZodError, 500 for anything else
handleError(err) ==
  IF err = "ZodError"
  THEN res' = [status |-> 400, body |-> [message |-> "Validation error"],
               logged |-> err]
  ELSE res' = [status |-> 500, body |-> [message |-> "Internal server error"],
               logged |-> err]

Message(m) == [message |-> m]

\* the ids returned by the creates, and the ids whose delete returned true
Log(log, t, id) == [log EXCEPT ![t] = Append(@, id)]

GetUser(id) ==
  /\ Request("GET /api/users/:id", id, NoBody)
  /\ LET user == getUser(id) IN
     IF user = Absent
     THEN Respond(404, Message("User not found"))
     ELSE Respond(200, user)
  /\ UNCHANGED <<client, inflight, stores, counters, created, removed>>

\* PostUsers that takes the id before it looks for the username
PostUsersTakesIdFirst(body) ==
  /\ Request("POST /api/users", 0, body)
  /\ IF ~ParseOk(insertUserSchema, body)
     THEN /\ handleError("ZodError")
          /\ UNCHANGED <<users, userId, created>>
     ELSE LET userData     == Parse(insertUserSchema, body)
              existingUser == getUserByUsername(userData.username)
              r            == createUser(userData)
          IN  /\ MayCreate(userId)
              /\ userId' = r.counter
              /\ IF existingUser # Absent
                 THEN /\ Respond(409, Message("Username already exists"))
                      /\ UNCHANGED <<users, created>>
                 ELSE /\ users' = r.map
                      /\ created' = Log(created, "user", r.ret.id)
                      /\ Respond(201, r.ret)
  /\ UNCHANGED <<client, inflight, blogs, likes, followers, comments,
                 blogId, likeId, followerId, commentId, removed>>

PostUsers(body) ==
  /\ Request("POST /api/users", 0, body)
  /\ IF ~ParseOk(insertUserSchema, body)
     THEN /\ handleError("ZodError")
          /\ UNCHANGED <<users, userId, created>>
     ELSE LET userData     == Parse(insertUserSchema, body)
              existingUser == getUserByUsername(userData.username)
          IN  IF existingUser # Absent
              THEN /\ Respond(409, Message("Username already exists"))
                   /\ UNCHANGED <<users, userId, created>>
              ELSE LET r == createUser(userData) IN
                   /\ MayCreate(userId)
                   /\ users' = r.map
                   /\ userId' = r.counter
                   /\ created' = Log(created, "user", r.ret.id)
                   /\ Respond(201, r.ret)
  /\ UNCHANGED <<client, inflight, blogs, likes, followers, comments,
                 blogId, likeId, followerId, commentId, removed>>

PutUsers(id, body) ==
  /\ Request("PUT /api/users/:id", id, body)
  /\ LET r == updateUser(id, body) IN
     /\ users' = r.map
     /\ IF r.threw # "none" THEN handleError(r.threw) ELSE Respond(200, r.ret)
  /\ UNCHANGED <<client, inflight, blogs, likes, followers, comments, counters, created, removed>>

\* the defaults of the limit and offset parameters
DefaultLimit  == 10
DefaultOffset == 0

\* GetBlogs whose sort reorders the stored blogs as well
GetBlogsSortInPlace(query) ==
  /\ Request("GET /api/blogs", 0, query)
  /\ LET limit  == IF "limit" \in DOMAIN query THEN query.limit ELSE DefaultLimit
         offset == IF "offset" \in DOMAIN query THEN query.offset ELSE DefaultOffset
         sorted == SortDesc(MapValues(blogs), "publishedAt")
     IN  /\ Respond(200, getBlogs(limit, offset))
         /\ blogs' = [i \in 1..Len(sorted) |->
                        [key |-> sorted[i].id, value |-> sorted[i]]]
  /\ UNCHANGED <<client, inflight, users, likes, followers, comments, counters,
                 created, removed>>

GetBlogs(query) ==
  /\ Request("GET /api/blogs", 0, query)
  /\ LET limit  == IF "limit" \in DOMAIN query THEN query.limit ELSE DefaultLimit
         offset == IF "offset" \in DOMAIN query THEN query.offset ELSE DefaultOffset
     IN  Respond(200, getBlogs(limit, offset))
  /\ UNCHANGED <<client, inflight, stores, counters, created, removed>>

GetBlog(id) ==
  /\ Request("GET /api/blogs/:id", id, NoBody)
  /\ LET blog == getBlog(id) IN
     IF blog = Absent
     THEN Respond(404, Message("Blog not found"))
     ELSE Respond(200, blog)
  /\ UNCHANGED <<client, inflight, stores, counters, created, removed>>

\* PostBlogs that stores the body without validating it
PostBlogsUnvalidated(body) ==
  /\ Request("POST /api/blogs", 0, body)
  /\ LET r == createBlog(body) IN
     /\ MayCreate(blogId)
     /\ blogs' = r.map
     /\ blogId' = r.counter
     /\ created' = Log(created, "blog", r.ret.id)
     /\ Respond(201, r.ret)
  /\ UNCHANGED <<client, inflight, users, likes, followers, comments,
                 userId, likeId, followerId, commentId, removed>>

PostBlogs(body) ==
  /\ Request("POST /api/blogs", 0, body)
  /\ IF ~ParseOk(insertBlogSchema, body)
     THEN /\ handleError("ZodError")
          /\ UNCHANGED <<blogs, blogId, created>>
     ELSE LET r == createBlog(Parse(insertBlogSchema, body)) IN
          /\ MayCreate(blogId)
          /\ blogs' = r.map
          /\ blogId' = r.counter
          /\ created' = Log(created, "blog", r.ret.id)
          /\ Respond(201, r.ret)
  /\ UNCHANGED <<client, inflight, users, likes, followers, comments,
                 userId, likeId, followerId, commentId, removed>>

PutBlogs(id, body) ==
  /\ Request("PUT /api/blogs/:id", id, body)
  /\ LET r == updateBlog(id, body) IN
     /\ blogs' = r.map
     /\ IF r.threw # "none" THEN handleError(r.threw) ELSE Respond(200, r.ret)
  /\ UNCHANGED <<client, inflight, users, likes, followers, comments, counters, created, removed>>

\* DeleteBlogs that sends nothing when the blog is not stored
DeleteBlogsNoAnswer(id) ==
  /\ Request("DELETE /api/blogs/:id", id, NoBody)
  /\ LET r == deleteBlog(id) IN
     /\ blogs' = r.map
     /\ IF ~r.ret
        THEN /\ res' = [status |-> 0, body |-> NoBody, logged |-> "none"]
             /\ UNCHANGED removed
        ELSE Respond(200, [success |-> TRUE]) /\ removed' = Log(removed, "blog", id)
  /\ UNCHANGED <<client, inflight, users, likes, followers, comments, counters, created>>

DeleteBlogs(id) ==
  /\ Request("DELETE /api/blogs/:id", id, NoBody)
  /\ LET r == deleteBlog(id) IN
     /\ blogs' = r.map
     /\ IF ~r.ret
        THEN Respond(404, Message("Blog not found")) /\ UNCHANGED removed
        ELSE Respond(200, [success |-> TRUE]) /\ removed' = Log(removed, "blog", id)
  /\ UNCHANGED <<client, inflight, users, likes, followers, comments, counters, created>>

PostLikes(body) ==
  /\ Request("POST /api/likes", 0, body)
  /\ IF ~ParseOk(insertLikeSchema, body)
     THEN /\ handleError("ZodError")
          /\ UNCHANGED <<likes, likeId, created>>
     ELSE LET likeData     == Parse(insertLikeSchema, body)
              existingLike == getLike(likeData.userId, likeData.blogId)
          IN  IF existingLike # Absent
              THEN /\ Respond(409, Message("Like already exists"))
                   /\ UNCHANGED <<likes, likeId, created>>
              ELSE LET r == createLike(likeData) IN
                   /\ MayCreate(likeId)
                   /\ likes' = r.map
                   /\ likeId' = r.counter
                   /\ created' = Log(created, "like", r.ret.id)
                   /\ Respond(201, r.ret)
  /\ UNCHANGED <<client, inflight, users, blogs, followers, comments,
                 userId, blogId, followerId, commentId, removed>>

DeleteLikes(id) ==
  /\ Request("DELETE /api/likes/:id", id, NoBody)
  /\ LET r == deleteLike(id) IN
     /\ likes' = r.map
     /\ IF ~r.ret
        THEN Respond(404, Message("Like not found")) /\ UNCHANGED removed
        ELSE Respond(200, [success |-> TRUE]) /\ removed' = Log(removed, "like", id)
  /\ UNCHANGED <<client, inflight, users, blogs, followers, comments, counters, created>>

PostFollowers(body) ==
  /\ Request("POST /api/followers", 0, body)
  /\ IF ~ParseOk(insertFollowerSchema, body)
     THEN /\ handleError("ZodError")
          /\ UNCHANGED <<followers, followerId, created>>
     ELSE LET followerData     == Parse(insertFollowerSchema, body)
              existingFollower == getFollower(followerData.followerId,
                                              followerData.followingId)
          IN  IF existingFollower # Absent
              THEN /\ Respond(409, Message("Already following this user"))
                   /\ UNCHANGED <<followers, followerId, created>>
              ELSE LET r == createFollower(followerData) IN
                   /\ MayCreate(followerId)
                   /\ followers' = r.map
                   /\ followerId' = r.counter
                   /\ created' = Log(created, "follower", r.ret.id)
                   /\ Respond(201, r.ret)
  /\ UNCHANGED <<client, inflight, users, blogs, likes, comments,
                 userId, blogId, likeId, commentId, removed>>

DeleteFollowers(id) ==
  /\ Request("DELETE /api/followers/:id", id, NoBody)
  /\ LET r == deleteFollower(id) IN
     /\ followers' = r.map
     /\ IF ~r.ret
        THEN /\ Respond(404, Message("Follower relationship not found"))
             /\ UNCHANGED removed
        ELSE /\ Respond(200, [success |-> TRUE])
             /\ removed' = Log(removed, "follower", id)
  /\ UNCHANGED <<client, inflight, users, blogs, likes, comments, counters, created>>

\* PostComments that refuses a comment on a blog that is not stored
PostCommentsChecked(body) ==
  /\ Request("POST /api/comments", 0, body)
  /\ IF ~ParseOk(insertCommentSchema, body)
     THEN /\ handleError("ZodError")
          /\ UNCHANGED <<comments, commentId, created>>
     ELSE IF getBlog(body.blogId) = Absent
     THEN /\ Respond(404, Message("Blog not found"))
          /\ UNCHANGED <<comments, commentId, created>>
     ELSE LET r == createComment(Parse(insertCommentSchema, body)) IN
          /\ MayCreate(commentId)
          /\ comments' = r.map
          /\ commentId' = r.counter
          /\ created' = Log(created, "comment", r.ret.id)
          /\ Respond(201, r.ret)
  /\ UNCHANGED <<client, inflight, users, blogs, likes, followers,
                 userId, blogId, likeId, followerId, removed>>

PostComments(body) ==
  /\ Request("POST /api/comments", 0, body)
  /\ IF ~ParseOk(insertCommentSchema, body)
     THEN /\ handleError("ZodError")
          /\ UNCHANGED <<comments, commentId, created>>
     ELSE LET r == createComment(Parse(insertCommentSchema, body)) IN
          /\ MayCreate(commentId)
          /\ comments' = r.map
          /\ commentId' = r.counter
          /\ created' = Log(created, "comment", r.ret.id)
          /\ Respond(201, r.ret)
  /\ UNCHANGED <<client, inflight, users, blogs, likes, followers,
                 userId, blogId, likeId, followerId, removed>>

PutComments(id, body) ==
  /\ Request("PUT /api/comments/:id", id, body)
  /\ LET r == updateComment(id, body) IN
     /\ comments' = r.map
     /\ IF r.threw # "none" THEN handleError(r.threw) ELSE Respond(200, r.ret)
  /\ UNCHANGED <<client, inflight, users, blogs, likes, followers, counters, created, removed>>

DeleteComments(id) ==
  /\ Request("DELETE /api/comments/:id", id, NoBody)
  /\ LET r == deleteComment(id) IN
     /\ comments' = r.map
     /\ IF ~r.ret
        THEN Respond(404, Message("Comment not found")) /\ UNCHANGED removed
        ELSE /\ Respond(200, [success |-> TRUE])
             /\ removed' = Log(removed, "comment", id)
  /\ UNCHANGED <<client, inflight, users, blogs, likes, followers, counters, created>>

Next ==
  \/ \E id \in ReqIds : GetUser(id)
  \/ \E body \in UserBodies : PostUsers(body)
  \/ \E id \in ReqIds, body \in UserPartials : PutUsers(id, body)
  \/ \E id \in ReqIds : GetBlog(id)
  \/ \E body \in BlogBodies : PostBlogs(body)
  \/ \E id \in ReqIds, body \in BlogPartials : PutBlogs(id, body)
  \/ \E id \in ReqIds : DeleteBlogs(id)
  \/ \E body \in LikeBodies : PostLikes(body)
  \/ \E id \in ReqIds : DeleteLikes(id)
  \/ \E body \in FollowerBodies : PostFollowers(body)
  \/ \E id \in ReqIds : DeleteFollowers(id)
  \/ \E body \in CommentBodies : PostComments(body)
  \/ \E id \in ReqIds, body \in CommentPartials : PutComments(id, body)
  \/ \E id \in ReqIds : DeleteComments(id)

Spec == Init /\ [][Next]_vars

(***************************************************************************)
(* The listing routes.  They read the maps that the blog, like, follower   *)
(* and comment routes write.                                               *)
(***************************************************************************)
\* a GET route that answers with the listing, whatever it holds
List(route, param, listing) ==
  /\ Request(route, param, NoBody)
  /\ Respond(200, listing)
  /\ UNCHANGED <<client, inflight, stores, counters, created, removed>>

GetBlogsByUser(uId) == List("GET /api/blogs/user/:userId", uId, getBlogsByUser(uId))

GetBlogsByCategory(category) ==
  List("GET /api/blogs/category/:category", category, getBlogsByCategory(category))

GetLikesByBlog(bId) == List("GET /api/likes/blog/:blogId", bId, getLikesByBlog(bId))

GetLikesByUser(uId) == List("GET /api/likes/user/:userId", uId, getLikesByUser(uId))

GetFollowers(uId) == List("GET /api/followers/:userId", uId, getFollowers(uId))

GetFollowing(uId) == List("GET /api/following/:userId", uId, getFollowing(uId))

GetCommentsByBlog(bId) ==
  List("GET /api/comments/blog/:blogId", bId, getCommentsByBlog(bId))

GetCommentsByUser(uId) ==
  List("GET /api/comments/user/:userId", uId, getCommentsByUser(uId))

NextListings ==
  \/ \E body \in BlogBodies : PostBlogs(body)
  \/ \E id \in ReqIds, body \in BlogPartials : PutBlogs(id, body)
  \/ \E id \in ReqIds : DeleteBlogs(id)
  \/ \E body \in LikeBodies : PostLikes(body)
  \/ \E id \in ReqIds : DeleteLikes(id)
  \/ \E body \in FollowerBodies : PostFollowers(body)
  \/ \E id \in ReqIds : DeleteFollowers(id)
  \/ \E body \in CommentBodies : PostComments(body)
  \/ \E id \in ReqIds, body \in CommentPartials : PutComments(id, body)
  \/ \E id \in ReqIds : DeleteComments(id)
  \/ \E query \in BlogQueries : GetBlogs(query)
  \/ \E uId \in RefIds : GetBlogsByUser(uId)
  \/ \E category \in CategoryParams : GetBlogsByCategory(category)
  \/ \E bId \in RefIds : GetLikesByBlog(bId)
  \/ \E uId \in RefIds : GetLikesByUser(uId)
  \/ \E uId \in RefIds : GetFollowers(uId)
  \/ \E uId \in RefIds : GetFollowing(uId)
  \/ \E bId \in RefIds : GetCommentsByBlog(bId)
  \/ \E uId \in RefIds : GetCommentsByUser(uId)

SpecListings == Init /\ [][NextListings]_vars

(***************************************************************************)
(* POST /api/likes and POST /api/users with one step per await.  A handler *)
(* runs up to its next await in one step: the awaited storage call has     *)
(* run and returned, and the handler is suspended on its result.  Handlers *)
(* that are suspended resume in any order.                                 *)
(***************************************************************************)
\* the response object of a handler that has not answered
NoResponse == [status |-> 0, body |-> NoBody, logged |-> "none"]

\* a handler suspended at the await of the call `at`, which returned value
Suspended(route, body, data, at, value) ==
  [route |-> route, body |-> body, data |-> data, at |-> at, value |-> value]

\* the handler at position k has returned
Remove(s, k) == SubSeq(s, 1, k - 1) \o SubSeq(s, k + 1, Len(s))

\* up to: const existingLike = await storage.getLike(...)
PostLikesCheck(body) ==
  /\ Len(inflight) < MaxInflight
  /\ Request("POST /api/likes", 0, body)
  /\ IF ~ParseOk(insertLikeSchema, body)
     THEN /\ handleError("ZodError")
          /\ UNCHANGED inflight
     ELSE LET likeData == Parse(insertLikeSchema, body) IN
          /\ inflight' = Append(inflight,
                 Suspended("POST /api/likes", body, likeData, "getLike",
                           getLike(likeData.userId, likeData.blogId)))
          /\ res' = NoResponse
  /\ UNCHANGED <<client, stores, counters, created, removed>>

\* PostLikesResume that runs the existence check again when it resumes
PostLikesResumeRecheck(k) ==
  LET h            == inflight[k]
      existingLike == getLike(h.data.userId, h.data.blogId)
  IN  /\ h.route = "POST /api/likes" /\ h.at = "getLike"
      /\ Request(h.route, 0, h.body)
      /\ IF existingLike # Absent
         THEN /\ Respond(409, Message("Like already exists"))
              /\ inflight' = Remove(inflight, k)
              /\ UNCHANGED <<likes, likeId, created>>
         ELSE LET r == createLike(h.data) IN
              /\ MayCreate(likeId)
              /\ likes' = r.map
              /\ likeId' = r.counter
              /\ created' = Log(created, "like", r.ret.id)
              /\ inflight' = [inflight EXCEPT ![k] =
                     Suspended(h.route, h.body, h.data, "createLike", r.ret)]
              /\ res' = NoResponse
      /\ UNCHANGED <<client, users, blogs, followers, comments,
                     userId, blogId, followerId, commentId, removed>>

\* from the result of getLike up to: const like = await storage.createLike(...)
PostLikesResume(k) ==
  LET h            == inflight[k]
      existingLike == h.value
  IN  /\ h.route = "POST /api/likes" /\ h.at = "getLike"
      /\ Request(h.route, 0, h.body)
      /\ IF existingLike # Absent
         THEN /\ Respond(409, Message("Like already exists"))
              /\ inflight' = Remove(inflight, k)
              /\ UNCHANGED <<likes, likeId, created>>
         ELSE LET r == createLike(h.data) IN
              /\ MayCreate(likeId)
              /\ likes' = r.map
              /\ likeId' = r.counter
              /\ created' = Log(created, "like", r.ret.id)
              /\ inflight' = [inflight EXCEPT ![k] =
                     Suspended(h.route, h.body, h.data, "createLike", r.ret)]
              /\ res' = NoResponse
      /\ UNCHANGED <<client, users, blogs, followers, comments,
                     userId, blogId, followerId, commentId, removed>>

\* from the result of createLike: return res.status(201).json(like)
PostLikesRespond(k) ==
  LET h == inflight[k] IN
  /\ h.route = "POST /api/likes" /\ h.at = "createLike"
  /\ Request(h.route, 0, h.body)
  /\ Respond(201, h.value)
  /\ inflight' = Remove(inflight, k)
  /\ UNCHANGED <<client, stores, counters, created, removed>>

\* up to: const existingUser = await storage.getUserByUsername(...)
PostUsersCheck(body) ==
  /\ Len(inflight) < MaxInflight
  /\ Request("POST /api/users", 0, body)
  /\ IF ~ParseOk(insertUserSchema, body)
     THEN /\ handleError("ZodError")
          /\ UNCHANGED inflight
     ELSE LET userData == Parse(insertUserSchema, body) IN
          /\ inflight' = Append(inflight,
                 Suspended("POST /api/users", body, userData, "getUserByUsername",
                           getUserByUsername(userData.username)))
          /\ res' = NoResponse
  /\ UNCHANGED <<client, stores, counters, created, removed>>

\* from the result of getUserByUsername up to:
\* const user = await storage.createUser(...)
PostUsersResume(k) ==
  LET h            == inflight[k]
      existingUser == h.value
  IN  /\ h.route = "POST /api/users" /\ h.at = "getUserByUsername"
      /\ Request(h.route, 0, h.body)
      /\ IF existingUser # Absent
         THEN /\ Respond(409, Message("Username already exists"))
              /\ inflight' = Remove(inflight, k)
              /\ UNCHANGED <<users, userId, created>>
         ELSE LET r == createUser(h.data) IN
              /\ MayCreate(userId)
              /\ users' = r.map
              /\ userId' = r.counter
              /\ created' = Log(created, "user", r.ret.id)
              /\ inflight' = [inflight EXCEPT ![k] =
                     Suspended(h.route, h.body, h.data, "createUser", r.ret)]
              /\ res' = NoResponse
      /\ UNCHANGED <<client, blogs, likes, followers, comments,
                     blogId, likeId, followerId, commentId, removed>>

\* from the result of createUser: return res.status(201).json(user)
PostUsersRespond(k) ==
  LET h == inflight[k] IN
  /\ h.route = "POST /api/users" /\ h.at = "createUser"
  /\ Request(h.route, 0, h.body)
  /\ Respond(201, h.value)
  /\ inflight' = Remove(inflight, k)
  /\ UNCHANGED <<client, stores, counters, created, removed>>

NextRace ==
  \/ \E body \in LikeBodies : PostLikesCheck(body)
  \/ \E k \in 1..Len(inflight) : PostLikesResume(k)
  \/ \E k \in 1..Len(inflight) : PostLikesRespond(k)
  \/ \E body \in UserBodies : PostUsersCheck(body)
  \/ \E k \in 1..Len(inflight) : PostUsersResume(k)
  \/ \E k \in 1..Len(inflight) : PostUsersRespond(k)

SpecRace == Init /\ [][NextRace]_vars

(***************************************************************************)
(* The read routes, over stores filled by the POST routes.                 *)
(***************************************************************************)
GetUserByUid(uid) ==
  /\ Request("GET /api/users/uid/:uid", uid, NoBody)
  /\ LET user == getUserByUid(uid) IN
     IF user = Absent
     THEN Respond(404, Message("User not found"))
     ELSE Respond(200, user)
  /\ UNCHANGED <<client, inflight, stores, counters, created, removed>>

GetUserByUsername(username) ==
  /\ Request("GET /api/users/username/:username", username, NoBody)
  /\ LET user == getUserByUsername(username) IN
     IF user = Absent
     THEN Respond(404, Message("User not found"))
     ELSE Respond(200, user)
  /\ UNCHANGED <<client, inflight, stores, counters, created, removed>>

NextReads ==
  \/ \E body \in UserBodies : PostUsers(body)
  \/ \E body \in BlogBodies : PostBlogs(body)
  \/ \E body \in LikeBodies : PostLikes(body)
  \/ \E body \in FollowerBodies : PostFollowers(body)
  \/ \E body \in CommentBodies \cup ReplyBodies : PostComments(body)
  \/ \E id \in ReqIds : GetUser(id)
  \/ \E a \in Accounts : GetUserByUid(a.uid)
  \/ \E username \in Usernames : GetUserByUsername(username)
  \/ \E id \in ReqIds : GetBlog(id)
  \/ \E query \in BlogQueries : GetBlogs(query)
  \/ \E uId \in RefIds : GetBlogsByUser(uId)
  \/ \E category \in CategoryParams : GetBlogsByCategory(category)
  \/ \E bId \in RefIds : GetLikesByBlog(bId)
  \/ \E uId \in RefIds : GetLikesByUser(uId)
  \/ \E uId \in RefIds : GetFollowers(uId)
  \/ \E uId \in RefIds : GetFollowing(uId)
  \/ \E bId \in RefIds : GetCommentsByBlog(bId)
  \/ \E uId \in RefIds : GetCommentsByUser(uId)

SpecReads == Init /\ [][NextReads]_vars

(***************************************************************************)
(* The PUT routes with bodies that name the id field as well.              *)
(***************************************************************************)
\* a PUT body is not validated: it may hold an id
IdPartials == [id : ReqIds]

NextPuts ==
  \/ \E body \in UserBodies : PostUsers(body)
  \/ \E body \in BlogBodies : PostBlogs(body)
  \/ \E body \in CommentBodies : PostComments(body)
  \/ \E id \in ReqIds, body \in UserPartials \cup IdPartials : PutUsers(id, body)
  \/ \E id \in ReqIds, body \in BlogPartials \cup IdPartials : PutBlogs(id, body)
  \/ \E id \in ReqIds, body \in CommentPartials \cup IdPartials : PutComments(id, body)
  \/ \E id \in ReqIds : GetBlog(id)

SpecPuts == Init /\ [][NextPuts]_vars

(***************************************************************************)
(* The register flow of the client (AuthProvider.register), one step per   *)
(* await, against POST /api/users.  A call to the identity provider, to    *)
(* the document store or to the API may fail.                              *)
(***************************************************************************)
\* register() leaves through finally: setLoading(false), and the promise
\* settles
Settle(result) ==
  [client EXCEPT !.pc = "idle", !.loading = FALSE, !.result = result]

\* the body register() posts to /api/users
NewUser ==
  [uid |-> client.uid, email |-> client.email, displayName |-> client.username,
   username |-> client.username, photoURL |-> Null]

\* register(email, password, username) up to: await registerWithEmail(...)
Register(account, username) ==
  /\ client.pc = "idle"
  /\ client' = [client EXCEPT !.pc = "registerWithEmail", !.loading = TRUE,
                              !.result = "none", !.email = account.email,
                              !.username = username, !.uid = account.uid]
  /\ UNCHANGED <<inflight, stores, counters, req, res, created, removed>>

\* registerWithEmail has settled: it fails when the email has an account and
\* may fail otherwise; its error is logged and thrown again
RegisterWithEmailDone(ok) ==
  /\ client.pc = "registerWithEmail"
  /\ client.uid \in client.accounts => ~ok
  /\ client' = IF ok
               THEN [client EXCEPT !.pc = "updateUserProfile",
                                   !.accounts = @ \cup {client.uid}]
               ELSE Settle("rejected")
  /\ UNCHANGED <<inflight, stores, counters, req, res, created, removed>>

\* updateUserProfile has settled; an error is logged and not thrown again
UpdateUserProfileDone(ok) ==
  /\ client.pc = "updateUserProfile"
  /\ client' = IF ok
               THEN [client EXCEPT !.pc = "createDocument"]
               ELSE Settle("resolved")
  /\ UNCHANGED <<inflight, stores, counters, req, res, created, removed>>

\* createDocument has settled; on success the user is posted to the API
CreateDocumentDone(ok) ==
  /\ client.pc = "createDocument"
  /\ IF ok
     THEN /\ client' = [client EXCEPT !.pc = "apiRequest",
                                      !.docs = @ \cup {client.uid}]
          /\ Request("POST /api/users", 0, NewUser)
          /\ res' = [status |-> 0, body |-> NoBody, logged |-> "none"]
     ELSE /\ client' = Settle("resolved")
          /\ UNCHANGED <<req, res>>
  /\ UNCHANGED <<inflight, stores, counters, created, removed>>

\* the server handles the request the client is waiting on
ServeNewUser ==
  /\ client.pc = "apiRequest"
  /\ res.status = 0
  /\ PostUsers(NewUser)

\* ApiRequestDone that throws the error of a response that is not OK again
ApiRequestDoneRethrows(received) ==
  /\ client.pc = "apiRequest"
  /\ received => res.status # 0
  /\ client' = IF received /\ res.status \notin 200..299
               THEN Settle("rejected")
               ELSE Settle("resolved")
  /\ UNCHANGED <<inflight, stores, counters, req, res, created, removed>>

\* apiRequest has settled: with the response, or with a network error;
\* the error thrown for a response that is not OK is logged and not thrown
\* again, like the network error
ApiRequestDone(received) ==
  /\ client.pc = "apiRequest"
  /\ received => res.status # 0
  /\ client' = Settle("resolved")
  /\ UNCHANGED <<inflight, stores, counters, req, res, created, removed>>

NextRegister ==
  \/ \E account \in Accounts, username \in Usernames : Register(account, username)
  \/ \E ok \in BOOLEAN : RegisterWithEmailDone(ok)
  \/ \E ok \in BOOLEAN : UpdateUserProfileDone(ok)
  \/ \E ok \in BOOLEAN : CreateDocumentDone(ok)
  \/ ServeNewUser
  \/ \E received \in BOOLEAN : ApiRequestDone(received)

SpecRegister == Init /\ [][NextRegister]_vars

(***************************************************************************)
(* Properties.                                                             *)
(***************************************************************************)
StoreOf(t) ==
  CASE t = "user"     -> users
    [] t = "blog"     -> blogs
    [] t = "like"     -> likes
    [] t = "follower" -> followers
    [] t = "comment"  -> comments

Range(s) == {s[i] : i \in 1..Len(s)}

\* C1: for each entity type the ids returned by successive creates start at
\* 1, strictly increase and are never repeated, also when records were
\* deleted in between.
IdsNeverReassigned ==
  \A t \in Types :
    /\ Len(created[t]) > 0 => created[t][1] = 1
    /\ \A i, j \in 1..Len(created[t]) : i < j => created[t][i] < created[t][j]

\* a like is created, deleted, and the next like has just been created
IdsNeverReassignedWitness ==
  /\ req.route = "POST /api/likes" /\ res.status = 201
  /\ removed["like"] = <<1>>
  /\ created["like"] = <<1, 2>>
  /\ res.body.id = 2

\* C2: with handlers running one after the other, the store never holds two
\* Like records with the same (userId, blogId) pair.
OneLikePerPair ==
  \A i, j \in 1..Len(likes) :
    i # j => ~(/\ likes[i].value.userId = likes[j].value.userId
               /\ likes[i].value.blogId = likes[j].value.blogId)

\* a second POST for a stored pair was refused while two likes are stored
OneLikePerPairWitness ==
  /\ req.route = "POST /api/likes" /\ res.status = 409
  /\ Len(likes) = 2

\* C3: with handlers running one after the other, the store never holds two
\* Follower records with the same (followerId, followingId) pair.
OneFollowPerPair ==
  \A i, j \in 1..Len(followers) :
    i # j => ~(/\ followers[i].value.followerId = followers[j].value.followerId
               /\ followers[i].value.followingId = followers[j].value.followingId)

\* a follow was deleted, created again, and a further POST for it refused
OneFollowPerPairWitness ==
  /\ req.route = "POST /api/followers" /\ res.status = 409
  /\ removed["follower"] # <<>>
  /\ Len(followers) = 1

\* C4: POST /api/users with a (schema-valid) body whose username is that of
\* a stored User is answered with 409 and leaves the users map and the id
\* counter as they were.
UsernameConflictRefused ==
  [][(/\ req'.route = "POST /api/users"
      /\ ParseOk(insertUserSchema, req'.body)
      /\ \E i \in 1..Len(users) : users[i].value.username = req'.body.username)
     => (/\ res'.status = 409
         /\ users' = users
         /\ Len(users') = Len(users)
         /\ userId' = userId)]_vars

\* a POST with the username of a stored user was answered with 409
UsernameConflictRefusedWitness ==
  /\ req.route = "POST /api/users" /\ res.status = 409
  /\ \E i \in 1..Len(users) : users[i].value.username = req.body.username
  /\ \E i \in 1..Len(users) : users[i].value.uid # req.body.uid

\* C5: in every state reached by sequentially executed POST /api/users and
\* PUT /api/users/:id requests, no two stored User records have the same
\* username.
UsernamesUnique ==
  \A i, j \in 1..Len(users) :
    i # j => users[i].value.username # users[j].value.username

\* C6: POST /api/users whose uid or whose email equals that of a stored User
\* fails with 409 and inserts nothing.
UidAndEmailConflictRefused ==
  [][(/\ req'.route = "POST /api/users"
      /\ ParseOk(insertUserSchema, req'.body)
      /\ \E i \in 1..Len(users) :
           \/ users[i].value.uid = req'.body.uid
           \/ users[i].value.email = req'.body.email)
     => (/\ res'.status = 409
         /\ users' = users
         /\ userId' = userId)]_vars

\* C7: a create followed by the by-id read of the returned id yields a
\* record whose fields are the input fields plus the assigned id; a by-id
\* read of an id that is not in the store yields undefined, 404 at the API.
CreatedRecordIs(schema, record) ==
  /\ record = res'.body
  /\ DOMAIN record = schema \cup {"id"}
  /\ \A f \in schema : record[f] = req'.body[f]

CreateThenRead ==
  [][/\ (req'.route = "POST /api/users" /\ res'.status = 201)
          => CreatedRecordIs(insertUserSchema, MapGet(users', res'.body.id))
     /\ (req'.route = "POST /api/blogs" /\ res'.status = 201)
          => CreatedRecordIs(insertBlogSchema, MapGet(blogs', res'.body.id))
     /\ (req'.route = "POST /api/comments" /\ res'.status = 201)
          => CreatedRecordIs(insertCommentSchema, MapGet(comments', res'.body.id))
     /\ \A id \in ReqIds :
          /\ (\A i \in 1..Len(users') : users'[i].key # id)
               => getUser(id)' = Absent
          /\ (\A i \in 1..Len(blogs') : blogs'[i].key # id)
               => getBlog(id)' = Absent
          /\ (\A i \in 1..Len(comments') : comments'[i].key # id)
               => getComment(id)' = Absent
     /\ (req'.route = "GET /api/users/:id")
          => (res'.status = 404 <=> \A i \in 1..Len(users) : users[i].key # req'.id)
     /\ (req'.route = "GET /api/blogs/:id")
          => (res'.status = 404 <=> \A i \in 1..Len(blogs) : blogs[i].key # req'.id)
    ]_vars

\* the second user was just created from a body that carried an id of its
\* own, which is not the id it was given
CreateThenReadWitness ==
  /\ req.route = "POST /api/users" /\ res.status = 201
  /\ "id" \in DOMAIN req.body
  /\ res.body.id = 2 /\ req.body.id # 2
  /\ Len(users) = 2
  /\ getUser(2) = res.body

\* C8: updateUser, updateBlog and updateComment with an id that is not in
\* the store fail with a not-found error and change neither a map nor an id
\* counter.
UpdateAbsentFails ==
  [][/\ (req'.route = "PUT /api/users/:id"
           /\ \A i \in 1..Len(users) : users[i].key # req'.id)
          => (res'.logged = "User not found"
                /\ stores' = stores /\ counters' = counters)
     /\ (req'.route = "PUT /api/blogs/:id"
           /\ \A i \in 1..Len(blogs) : blogs[i].key # req'.id)
          => (res'.logged = "Blog not found"
                /\ stores' = stores /\ counters' = counters)
     /\ (req'.route = "PUT /api/comments/:id"
           /\ \A i \in 1..Len(comments) : comments[i].key # req'.id)
          => (res'.logged = "Comment not found"
                /\ stores' = stores /\ counters' = counters)
    ]_vars

\* an update of a deleted blog failed while another blog is stored
UpdateAbsentFailsWitness ==
  /\ req.route = "PUT /api/blogs/:id"
  /\ res.logged = "Blog not found"
  /\ req.id \in Range(removed["blog"])
  /\ req.body # NoBody
  /\ Len(blogs) = 1

\* C9: an update of an existing id replaces exactly the fields present in
\* the partial input, keeps every absent field, returns the merged record,
\* which is also what the by-id read returns afterwards, and changes no
\* other record.
MergedInto(m, mNext) ==
  LET old    == MapGet(m, req'.id)
      merged == MapGet(mNext, req'.id)
  IN  /\ res'.status = 200
      /\ res'.body = merged
      /\ DOMAIN merged = (DOMAIN old) \cup (DOMAIN req'.body)
      /\ \A f \in DOMAIN req'.body : merged[f] = req'.body[f]
      /\ \A f \in (DOMAIN old) \ (DOMAIN req'.body) : merged[f] = old[f]
      /\ Len(mNext) = Len(m)
      /\ \A i \in 1..Len(m) :
           /\ mNext[i].key = m[i].key
           /\ m[i].key # req'.id => mNext[i] = m[i]

UpdateMerges ==
  [][/\ (req'.route = "PUT /api/users/:id"
           /\ \E i \in 1..Len(users) : users[i].key = req'.id)
          => (MergedInto(users, users')
                /\ UNCHANGED <<blogs, likes, followers, comments, counters>>)
     /\ (req'.route = "PUT /api/blogs/:id"
           /\ \E i \in 1..Len(blogs) : blogs[i].key = req'.id)
          => (MergedInto(blogs, blogs')
                /\ UNCHANGED <<users, likes, followers, comments, counters>>)
     /\ (req'.route = "PUT /api/comments/:id"
           /\ \E i \in 1..Len(comments) : comments[i].key = req'.id)
          => (MergedInto(comments, comments')
                /\ UNCHANGED <<users, blogs, likes, followers, counters>>)
    ]_vars

\* one of two comments was updated in one field and now differs from the
\* other in it
UpdateMergesWitness ==
  /\ req.route = "PUT /api/comments/:id" /\ res.status = 200
  /\ DOMAIN req.body = {"createdAt"}
  /\ Len(comments) = 2
  /\ getComment(req.id).createdAt = req.body.createdAt
  /\ \E i \in 1..Len(comments) :
       comments[i].value.createdAt # req.body.createdAt

\* C10: for Blog, Like, Follower and Comment, a delete succeeds (200
\* {success:true}) exactly when the record is stored and is answered with
\* 404 otherwise, so at most once per id; it never raises an error and it
\* removes only the record with that id.
Deletes(route, t) ==
  (req'.route = route) =>
    LET m       == StoreOf(t)
        mNext   == StoreOf(t)'
        present == \E i \in 1..Len(m) : m[i].key = req'.id
    IN  /\ res'.logged = "none"
        /\ res'.status = IF present THEN 200 ELSE 404
        /\ present => res'.body = [success |-> TRUE]
        /\ mNext = SelectSeq(m, LAMBDA e : e.key # req'.id)
        /\ \A u \in Types \ {t} : StoreOf(u)' = StoreOf(u)

DeleteTrueOnce ==
  [][/\ Deletes("DELETE /api/blogs/:id", "blog")
     /\ Deletes("DELETE /api/likes/:id", "like")
     /\ Deletes("DELETE /api/followers/:id", "follower")
     /\ Deletes("DELETE /api/comments/:id", "comment")
     /\ \A t \in Types :
          /\ \A i, j \in 1..Len(removed'[t]) :
               i # j => removed'[t][i] # removed'[t][j]
          /\ \A id \in Range(removed'[t]) :
               \A i \in 1..Len(StoreOf(t)') : StoreOf(t)'[i].key # id
    ]_vars

\* the delete of an id that was deleted before was answered with 404 while
\* a later record of the type is stored
DeleteTrueOnceWitness ==
  /\ req.route = "DELETE /api/followers/:id" /\ res.status = 404
  /\ req.id \in Range(removed["follower"])
  /\ Len(followers) = 1

Min(a, b) == IF a < b THEN a ELSE b

Max(a, b) == IF a > b THEN a ELSE b

\* r is the slice [offset, offset + limit) of the stored blogs in an order
\* of descending publishedAt
IsFeedSlice(r, limit, offset) ==
  LET all == [i \in 1..Len(blogs) |-> blogs[i].value]
      n   == Len(all)
  IN  /\ Len(r) = Min(limit, Max(0, n - offset))
      /\ \E p \in [1..n -> 1..n] :
           /\ \A i, j \in 1..n : i # j => p[i] # p[j]
           /\ \A i, j \in 1..n :
                i < j => all[p[i]].publishedAt >= all[p[j]].publishedAt
           /\ \A i \in 1..Len(r) : r[i] = all[p[offset + i]]

\* C11: for non-negative limit and offset, getBlogs(limit, offset) is the
\* slice [offset, offset + limit) of all stored blogs ordered by publishedAt
\* descending, of min(limit, max(0, n - offset)) elements, empty when
\* offset >= n; without arguments the limit is 10 and the offset 0.
FeedIsSlice ==
  /\ \A limit, offset \in 0..(MaxId + 1) :
       /\ IsFeedSlice(getBlogs(limit, offset), limit, offset)
       /\ offset >= Len(blogs) => getBlogs(limit, offset) = <<>>
  /\ (req.route = "GET /api/blogs"
        /\ \A f \in DOMAIN req.body : req.body[f] >= 0)
       => IsFeedSlice(res.body,
                      IF "limit" \in DOMAIN req.body THEN req.body.limit ELSE 10,
                      IF "offset" \in DOMAIN req.body THEN req.body.offset ELSE 0)

\* the second page of one blog was read from two blogs: it holds the older
\* one, which was posted first
FeedIsSliceWitness ==
  /\ req.route = "GET /api/blogs"
  /\ req.body = [limit |-> 1, offset |-> 1]
  /\ Len(blogs) = 2
  /\ Len(res.body) = 1
  /\ res.body[1].id = 1
  /\ getBlog(2).publishedAt > res.body[1].publishedAt

\* C12: in the feed of getBlogs two blogs with the same publishedAt are
\* ordered by id descending.
FeedTiesByIdDescending ==
  LET r == getBlogs(DefaultLimit, DefaultOffset) IN
  \A i, j \in 1..Len(r) :
    (i < j /\ r[i].publishedAt = r[j].publishedAt) => r[i].id > r[j].id

\* C13: getBlogsByCategory(c) returns exactly the stored blogs whose
\* category equals c, compared case-sensitively: each of them once, no
\* other blog, and no deleted blog.
CategoryListingExact ==
  /\ \A c \in CategoryParams :
       LET r == getBlogsByCategory(c) IN
       /\ \A k \in 1..Len(r) :
            /\ r[k].category = c
            /\ \E i \in 1..Len(blogs) : blogs[i].value = r[k]
            /\ r[k].id \notin Range(removed["blog"])
       /\ \A i \in 1..Len(blogs) :
            blogs[i].value.category = c
              => Cardinality({k \in 1..Len(r) : r[k] = blogs[i].value}) = 1
  /\ req.route = "GET /api/blogs/category/:category"
       => res.body = getBlogsByCategory(req.id)

\* "Tech" was asked for while a "Tech" and a "tech" blog are stored
CategoryListingExactWitness ==
  /\ req.route = "GET /api/blogs/category/:category"
  /\ req.id = "Tech"
  /\ Len(res.body) = 1
  /\ \E i \in 1..Len(blogs) : blogs[i].value.category = "tech"

\* the like (u, b) is among the entries of the map m
PairLiked(m, u, b) ==
  \E i \in 1..Len(m) : m[i].value.userId = u /\ m[i].value.blogId = b

\* C14: a valid POST /api/likes for a pair that is stored is answered with
\* 409 and inserts nothing; a successful DELETE /api/likes/:id leaves the
\* pair of the deleted like without a record; and a valid POST for a pair
\* without a record is answered with 201 and a like of that pair whose id is
\* larger than every deleted id.
LikeToggles ==
  [][/\ (req'.route = "POST /api/likes" /\ ParseOk(insertLikeSchema, req'.body))
          => IF PairLiked(likes, req'.body.userId, req'.body.blogId)
             THEN /\ res'.status = 409
                  /\ likes' = likes /\ likeId' = likeId
             ELSE /\ res'.status = 201
                  /\ res'.body.userId = req'.body.userId
                  /\ res'.body.blogId = req'.body.blogId
                  /\ MapGet(likes', res'.body.id) = res'.body
                  /\ Len(likes') = Len(likes) + 1
                  /\ \A d \in Range(removed["like"]) : res'.body.id > d
     /\ (req'.route = "DELETE /api/likes/:id" /\ res'.status = 200)
          => LET like == MapGet(likes, req'.id) IN
             /\ like # Absent
             /\ ~PairLiked(likes', like.userId, like.blogId)
    ]_vars

\* like 1 was deleted and a POST was then answered with like 2, the only
\* like stored
LikeTogglesWitness ==
  /\ req.route = "POST /api/likes" /\ res.status = 201
  /\ removed["like"] = <<1>>
  /\ res.body.id = 2
  /\ Len(likes) = 1
  /\ PairLiked(likes, req.body.userId, req.body.blogId)

\* C15: PUT /api/users/:id, PUT /api/blogs/:id and PUT /api/comments/:id
\* with an id that is not stored are answered with status 500 and the
\* message of an internal error, and the request leaves every map as it was.
PutAbsentIs500 ==
  [][\A t \in {"user", "blog", "comment"} :
       (/\ req'.route = (CASE t = "user"    -> "PUT /api/users/:id"
                           [] t = "blog"    -> "PUT /api/blogs/:id"
                           [] t = "comment" -> "PUT /api/comments/:id")
        /\ MapGet(StoreOf(t), req'.id) = Absent)
         => /\ res'.status = 500
            /\ res'.body = Message("Internal server error")
            /\ \A u \in Types : StoreOf(u)' = StoreOf(u)
    ]_vars

\* a PUT of user 2 with a new username was answered with 500 while user 1
\* alone is stored
PutAbsentIs500Witness ==
  /\ req.route = "PUT /api/users/:id" /\ req.id = 2
  /\ "username" \in DOMAIN req.body
  /\ res.status = 500
  /\ Len(users) = 1 /\ getUser(1) # Absent /\ getUser(2) = Absent
  /\ getUser(1).username # req.body.username

\* C16: the uid of a stored user never changes: after every request each
\* stored user has the uid it had before the request, hence the uid it was
\* created with.
UidImmutable ==
  [][\A i \in 1..Len(users) :
       MapHas(users', users[i].key)
         => MapGet(users', users[i].key).uid = users[i].value.uid
    ]_vars

\* the handler at position k of inflight took the step
Resumed(k) ==
  \/ inflight' = Remove(inflight, k)
  \/ Len(inflight') = Len(inflight) /\ inflight'[k] # inflight[k]

\* the records of the map m that agree with the record d on the fields fs
Matching(m, d, fs) ==
  {i \in 1..Len(m) : \A f \in fs : m[i].value[f] = d[f]}

\* C17: POST /api/likes and POST /api/users check and insert in two steps.
\* A handler passes its check exactly when no record of its pair (of its
\* username) is stored at the time of the check; a handler that passed its
\* check inserts when it resumes, whatever was stored in between, so that
\* the second of two handlers that both passed the check for one pair (one
\* username) leaves two records of it; a handler that failed its check
\* answers 409 and inserts nothing.
CheckThenActRace ==
  [][/\ Len(inflight') = Len(inflight) + 1
          => LET h == inflight'[Len(inflight')] IN
             IF h.route = "POST /api/likes"
             THEN (h.value = Absent)
                    <=> (Matching(likes, h.data, {"userId", "blogId"}) = {})
             ELSE (h.value = Absent)
                    <=> (Matching(users, h.data, {"username"}) = {})
     /\ \A k \in 1..Len(inflight) :
          LET h == inflight[k] IN
          (h.at \in {"getLike", "getUserByUsername"} /\ Resumed(k))
            => IF h.value # Absent
               THEN res'.status = 409 /\ stores' = stores
               ELSE IF h.route = "POST /api/likes"
               THEN /\ likes' = Append(likes, [key   |-> likeId,
                                               value |-> WithId(h.data, likeId)])
                    /\ Cardinality(Matching(likes', h.data, {"userId", "blogId"}))
                         = Cardinality(Matching(likes, h.data, {"userId", "blogId"})) + 1
               ELSE /\ users' = Append(users, [key   |-> userId,
                                               value |-> WithId(h.data, userId)])
                    /\ Cardinality(Matching(users', h.data, {"username"}))
                         = Cardinality(Matching(users, h.data, {"username"})) + 1
    ]_vars

\* two POST /api/likes handlers of one pair have both inserted and neither
\* has answered: two likes of the pair are stored
CheckThenActRaceWitness ==
  /\ Len(inflight) = 2
  /\ \A k \in 1..2 : inflight[k].route = "POST /api/likes"
                        /\ inflight[k].at = "createLike"
  /\ inflight[1].data = inflight[2].data
  /\ Len(likes) = 2
  /\ Cardinality(Matching(likes, inflight[1].data, {"userId", "blogId"})) = 2

\* C18: a DELETE /api/blogs/:id leaves the like map and the comment map as
\* they were, so getLikesByBlog and getCommentsByBlog return for every blog
\* what they returned before the delete, the deleted blog included, while
\* getBlog of the deleted id is absent afterwards.
DeleteBlogNoCascade ==
  [][req'.route = "DELETE /api/blogs/:id"
       => /\ likes' = likes
          /\ comments' = comments
          /\ \A b \in RefIds :
               /\ getLikesByBlog(b)' = getLikesByBlog(b)
               /\ getCommentsByBlog(b)' = getCommentsByBlog(b)
          /\ MapGet(blogs', req'.id) = Absent
    ]_vars

\* a blog with a like was deleted: the blog is gone and its like is listed
DeleteBlogNoCascadeWitness ==
  /\ req.route = "DELETE /api/blogs/:id" /\ res.status = 200
  /\ getBlog(req.id) = Absent
  /\ Len(getLikesByBlog(req.id)) = 1

\* C19: GET /api/blogs with a negative limit or a negative offset is
\* rejected before getBlogs is called: it is answered with 400.
NegativeQueryRejected ==
  [][(req'.route = "GET /api/blogs"
        /\ \E f \in DOMAIN req'.body : req'.body[f] < 0)
       => res'.status = 400
    ]_vars

\* the listing r holds exactly the records of the map m whose field f is x:
\* each of them once and no other record
ExactlyThose(r, m, f, x) ==
  /\ \A k \in 1..Len(r) :
       /\ r[k][f] = x
       /\ \E i \in 1..Len(m) : m[i].value = r[k]
  /\ \A i \in 1..Len(m) :
       m[i].value[f] = x
         => Cardinality({k \in 1..Len(r) : r[k] = m[i].value}) = 1

\* C20: getFollowers(u) returns exactly the followers with followingId = u,
\* getFollowing(u) exactly those with followerId = u, getLikesByBlog(b)
\* exactly the likes with blogId = b and getBlogsByUser(u) exactly the blogs
\* with userId = u, and the four routes answer with these listings.
ForeignKeyListingsExact ==
  /\ \A x \in RefIds :
       /\ ExactlyThose(getFollowers(x), followers, "followingId", x)
       /\ ExactlyThose(getFollowing(x), followers, "followerId", x)
       /\ ExactlyThose(getLikesByBlog(x), likes, "blogId", x)
       /\ ExactlyThose(getBlogsByUser(x), blogs, "userId", x)
  /\ req.route = "GET /api/followers/:userId" => res.body = getFollowers(req.id)
  /\ req.route = "GET /api/following/:userId" => res.body = getFollowing(req.id)
  /\ req.route = "GET /api/likes/blog/:blogId" => res.body = getLikesByBlog(req.id)
  /\ req.route = "GET /api/blogs/user/:userId" => res.body = getBlogsByUser(req.id)

\* the followers of user 2 were listed while 1 follows 2 and 2 follows 1:
\* the listing holds the first follow alone
ForeignKeyListingsExactWitness ==
  /\ req.route = "GET /api/followers/:userId" /\ req.id = 2
  /\ Len(followers) = 2
  /\ Len(res.body) = 1
  /\ res.body[1].followerId = 1 /\ res.body[1].followingId = 2
  /\ Len(getFollowing(2)) = 1
  /\ getFollowing(2)[1].followingId = 1

\* the POST route of an entity type and the schema its body is parsed with
PostRoute(t) ==
  CASE t = "user"     -> "POST /api/users"
    [] t = "blog"     -> "POST /api/blogs"
    [] t = "like"     -> "POST /api/likes"
    [] t = "follower" -> "POST /api/followers"
    [] t = "comment"  -> "POST /api/comments"

SchemaOf(t) ==
  CASE t = "user"     -> insertUserSchema
    [] t = "blog"     -> insertBlogSchema
    [] t = "like"     -> insertLikeSchema
    [] t = "follower" -> insertFollowerSchema
    [] t = "comment"  -> insertCommentSchema

GetRoutes ==
  {"GET /api/users/:id", "GET /api/users/uid/:uid",
   "GET /api/users/username/:username",
   "GET /api/blogs", "GET /api/blogs/:id", "GET /api/blogs/user/:userId",
   "GET /api/blogs/category/:category",
   "GET /api/likes/blog/:blogId", "GET /api/likes/user/:userId",
   "GET /api/followers/:userId", "GET /api/following/:userId",
   "GET /api/comments/blog/:blogId", "GET /api/comments/user/:userId"}

\* C22: a read route leaves the five maps and the five id counters as they
\* were, the feed with its sort and slice included, and a read that repeats
\* the request before it is answered as that request was.
ReadsChangeNothing ==
  [][req'.route \in GetRoutes
       => /\ stores' = stores
          /\ counters' = counters
          /\ (req'.route = req.route /\ req'.id = req.id /\ req'.body = req.body)
               => res' = res
    ]_vars

\* the feed was read from two blogs stored oldest first: the answer starts
\* with blog 2 and the map still starts with blog 1
ReadsChangeNothingWitness ==
  /\ req.route = "GET /api/blogs" /\ req.body = NoBody
  /\ Len(res.body) = 2
  /\ res.body[1].id = 2
  /\ res.body[1].publishedAt > res.body[2].publishedAt
  /\ blogs[1].key = 1

\* the request was answered with 201 and the record of type t that its body
\* describes, which is stored under the id of the answer
StoredAsPosted(t) ==
  /\ res'.status = 201
  /\ \A f \in SchemaOf(t) : res'.body[f] = req'.body[f]
  /\ MapGet(StoreOf(t)', res'.body.id) = res'.body
  /\ Len(StoreOf(t)') = Len(StoreOf(t)) + 1

\* C23: the POST routes of blogs, likes, followers and comments store the
\* record also when a user, blog or comment it refers to (userId, blogId,
\* followerId, followingId, parentId) is not stored.
DanglingReferencesAccepted ==
  [][/\ (/\ req'.route = "POST /api/blogs"
         /\ ParseOk(insertBlogSchema, req'.body)
         /\ getUser(req'.body.userId) = Absent)
          => StoredAsPosted("blog")
     /\ (/\ req'.route = "POST /api/likes"
         /\ ParseOk(insertLikeSchema, req'.body)
         /\ getLike(req'.body.userId, req'.body.blogId) = Absent
         /\ (getUser(req'.body.userId) = Absent \/ getBlog(req'.body.blogId) = Absent))
          => StoredAsPosted("like")
     /\ (/\ req'.route = "POST /api/followers"
         /\ ParseOk(insertFollowerSchema, req'.body)
         /\ getFollower(req'.body.followerId, req'.body.followingId) = Absent
         /\ (getUser(req'.body.followerId) = Absent
               \/ getUser(req'.body.followingId) = Absent))
          => StoredAsPosted("follower")
     /\ (/\ req'.route = "POST /api/comments"
         /\ ParseOk(insertCommentSchema, req'.body)
         /\ \/ getUser(req'.body.userId) = Absent
            \/ getBlog(req'.body.blogId) = Absent
            \/ ("parentId" \in DOMAIN req'.body
                  /\ getComment(req'.body.parentId) = Absent))
          => (StoredAsPosted("comment")
                /\ ("parentId" \in DOMAIN req'.body
                      => res'.body.parentId = req'.body.parentId))
    ]_vars

\* a reply to comment 2 on blog 2 by user 1 is stored while no user, no blog
\* and no comment 2 is
DanglingReferencesAcceptedWitness ==
  /\ req.route = "POST /api/comments" /\ res.status = 201
  /\ users = <<>> /\ blogs = <<>>
  /\ "parentId" \in DOMAIN res.body
  /\ res.body.parentId = 2
  /\ getComment(2) = Absent
  /\ getComment(res.body.id) = res.body

\* C24: in each of the five maps the record stored under key k has the id
\* k, whatever partial inputs the updates were given.
KeyIsId ==
  \A t \in Types :
    \A i \in 1..Len(StoreOf(t)) : StoreOf(t)[i].value.id = StoreOf(t)[i].key

CounterOf(t) ==
  CASE t = "user"     -> userId
    [] t = "blog"     -> blogId
    [] t = "like"     -> likeId
    [] t = "follower" -> followerId
    [] t = "comment"  -> commentId

\* C25: the id counter of each type is greater than every key of the type's
\* map, so a successful create keeps every stored record as it is and makes
\* the map one record longer.
CounterAboveKeys ==
  [][\A t \in Types :
       /\ \A i \in 1..Len(StoreOf(t)') : StoreOf(t)'[i].key < CounterOf(t)'
       /\ (req'.route = PostRoute(t) /\ res'.status = 201)
            => /\ Len(StoreOf(t)') = Len(StoreOf(t)) + 1
               /\ \A i \in 1..Len(StoreOf(t)) : StoreOf(t)'[i] = StoreOf(t)[i]
               /\ \A i \in 1..Len(StoreOf(t)) : StoreOf(t)[i].key # res'.body.id
    ]_vars

\* a second comment was created after the first was deleted: the map holds
\* comment 2 alone and the counter is 3
CounterAboveKeysWitness ==
  /\ req.route = "POST /api/comments" /\ res.status = 201
  /\ removed["comment"] = <<1>>
  /\ Len(comments) = 1 /\ comments[1].key = 2
  /\ commentId = 3

\* C26: a POST answered with 409 or 400 changes no id counter, so the ids
\* the successful creates of a type return are 1, 2, 3, ... without a gap.
RejectedPostKeepsIds ==
  [][/\ \A t \in Types :
          (req'.route = PostRoute(t) /\ res'.status \in {400, 409})
            => (counters' = counters /\ stores' = stores)
     /\ \A t \in Types :
          \A i \in 1..Len(created'[t]) : created'[t][i] = i
    ]_vars

\* a follow was refused with 409 after one follow had been created: the next
\* follower id is still 2
RejectedPostKeepsIdsWitness ==
  /\ req.route = "POST /api/followers" /\ res.status = 409
  /\ created["follower"] = <<1>>
  /\ followerId = 2

\* the routes that write the map of a type
WriteRoutes(t) ==
  CASE t = "user"     -> {"POST /api/users", "PUT /api/users/:id"}
    [] t = "blog"     -> {"POST /api/blogs", "PUT /api/blogs/:id",
                          "DELETE /api/blogs/:id"}
    [] t = "like"     -> {"POST /api/likes", "DELETE /api/likes/:id"}
    [] t = "follower" -> {"POST /api/followers", "DELETE /api/followers/:id"}
    [] t = "comment"  -> {"POST /api/comments", "PUT /api/comments/:id",
                          "DELETE /api/comments/:id"}

\* C27: a create, update or delete of one type leaves the maps and the id
\* counters of the other four types as they were, and a create takes its id
\* from the counter of its own type, which it advances by one.
TypesIndependent ==
  [][\A t \in Types :
       /\ req'.route \in WriteRoutes(t)
            => \A u \in Types \ {t} :
                 StoreOf(u)' = StoreOf(u) /\ CounterOf(u)' = CounterOf(u)
       /\ (req'.route = PostRoute(t) /\ res'.status = 201)
            => (res'.body.id = CounterOf(t) /\ CounterOf(t)' = CounterOf(t) + 1)
       /\ (req'.route \in WriteRoutes(t) /\ res'.status # 201)
            => CounterOf(t)' = CounterOf(t)
    ]_vars

\* the first follow was created after a like: it has id 1 and the next like
\* id is 2
TypesIndependentWitness ==
  /\ req.route = "POST /api/followers" /\ res.status = 201
  /\ res.body.id = 1
  /\ Len(likes) = 1
  /\ likeId = 2 /\ followerId = 2

\* no element of r has a smaller value of the field f than its successor
Descending(r, f) == \A i \in 1..(Len(r) - 1) : r[i][f] >= r[i + 1][f]

\* C28: getBlogsByUser and getBlogsByCategory return the blogs ordered by
\* publishedAt descending, getCommentsByBlog and getCommentsByUser the
\* comments ordered by createdAt descending, and so do their routes.
ListingsDescending ==
  /\ \A x \in RefIds :
       /\ Descending(getBlogsByUser(x), "publishedAt")
       /\ Descending(getCommentsByBlog(x), "createdAt")
       /\ Descending(getCommentsByUser(x), "createdAt")
  /\ \A c \in CategoryParams : Descending(getBlogsByCategory(c), "publishedAt")
  /\ req.route \in {"GET /api/blogs/user/:userId",
                    "GET /api/blogs/category/:category"}
       => Descending(res.body, "publishedAt")
  /\ req.route \in {"GET /api/comments/blog/:blogId",
                    "GET /api/comments/user/:userId"}
       => Descending(res.body, "createdAt")

\* the comments of user 1 were listed while the older comment is stored
\* first: the newer comment, comment 2, is listed first
ListingsDescendingWitness ==
  /\ req.route = "GET /api/comments/user/:userId" /\ req.id = 1
  /\ Len(res.body) = 2
  /\ res.body[1].id = 2 /\ res.body[2].id = 1
  /\ res.body[1].createdAt > res.body[2].createdAt
  /\ comments[1].key = 1

\* the statuses a route answers with when no operation throws
Answers(route) ==
  CASE route \in {"GET /api/users/:id", "GET /api/users/uid/:uid",
                  "GET /api/users/username/:username", "GET /api/blogs/:id"}
         -> {200, 404}
    [] route \in {"GET /api/blogs", "GET /api/blogs/user/:userId",
                  "GET /api/blogs/category/:category",
                  "GET /api/likes/blog/:blogId", "GET /api/likes/user/:userId",
                  "GET /api/followers/:userId", "GET /api/following/:userId",
                  "GET /api/comments/blog/:blogId",
                  "GET /api/comments/user/:userId"} -> {200}
    [] route \in {"POST /api/users", "POST /api/likes", "POST /api/followers"}
         -> {201, 409}
    [] route \in {"POST /api/blogs", "POST /api/comments"} -> {201}
    [] route \in {"PUT /api/users/:id", "PUT /api/blogs/:id",
                  "PUT /api/comments/:id"} -> {200}
    [] route \in {"DELETE /api/blogs/:id", "DELETE /api/likes/:id",
                  "DELETE /api/followers/:id", "DELETE /api/comments/:id"}
         -> {200, 404}

RegisterSwallowsLaterFailures ==
  [][/\ (client.result = "none" /\ client'.result = "rejected")
          => (client.pc = "registerWithEmail"
                /\ client'.accounts = client.accounts)
     /\ (client.pc \in {"updateUserProfile", "createDocument", "apiRequest"}
           /\ client'.pc = "idle")
          => client'.result = "resolved"
     /\ (client.pc # "idle" /\ client'.pc = "idle")
          => (~client'.loading /\ client'.result \in {"resolved", "rejected"})
     /\ client'.pc # "idle" => (client'.loading /\ client'.result = "none")
    ]_vars

\* register() resolved after POST /api/users was answered with 409: the
\* uid has an account and a document, no stored user has the uid, and the
\* loading flag is false
RegisterSwallowsLaterFailuresWitness ==
  /\ client.pc = "idle" /\ client.result = "resolved"
  /\ ~client.loading
  /\ req.route = "POST /api/users" /\ req.body.uid = client.uid
  /\ res.status = 409
  /\ client.uid \in client.accounts
  /\ client.uid \in client.docs
  /\ getUserByUid(client.uid) = Absent

====
